---- MODULE Spec2Model ----
(***************************************************************************)
(* Model of the CodeFix-AI execution orchestrator:                         *)
(*   backend/app/runner.py  run_command, is_executable_available,          *)
(*                          _make_executable_path, run_linter_for_language *)
(*   backend/app/api.py     run_code (POST /run)                           *)
(*   backend/app/ws.py      _normalize_ai_response, websocket_endpoint,    *)
(*                          _send_ping_periodically                         *)
(* A worker serves one /run request at a time.  Every search-path lookup,  *)
(* every process launch and every process completion is a step of its own, *)
(* so that the environment (PATH, the file system, other workers) can      *)
(* change between any two of them.                                         *)
(***************************************************************************)
EXTENDS Integers, Sequences, FiniteSets, TLC

VARIABLES
    path,        \* names of the executables currently found on PATH
    envChanges,  \* number of installs/removals so far
    tmpdirs,     \* existing temporary directories: name -> owning worker, 0 = absent
    files,       \* regular files on disk: [dir, name, owner]
    pc,          \* per worker: position in run_code / run_linter_for_language
    req,         \* per worker: the RunRequest being served
    td,          \* per worker: name of the TemporaryDirectory, None outside the with block
    file_path,   \* per worker: api.py file_path (structured), None before it is computed
    local,       \* per worker: local variables of run_linter_for_language
    call,        \* per worker: the run_command call in progress
    alive,       \* per worker: phases whose child process is currently alive
    hist,        \* per worker: what the request has observed and done so far
    resp,        \* per worker: the outcome of run_code, None while running
    wpc,         \* websocket_endpoint: position of the handler
    sock,        \* the WebSocket connection: "open", "gone" once the client has left,
                 \* "closed" once the server has closed it
    inbox,       \* client messages that have arrived and are not yet received
    sent,        \* what the server has written to the socket, in order
    data_raw,    \* the text receive_text returned last
    ai_resp,     \* the value ask_groq_json returned last
    payload,     \* the value _normalize_ai_response returned last
    stop_event,  \* the asyncio.Event that stops the keepalive task
    ping_task,   \* the keepalive task: "none", "created", "sending", "waiting" or "ended"
    whist,       \* for each message received: the text, AI calls made, replies sent
    left         \* how the receive loop was left: a break or an exception; None inside it

runvars == <<path, envChanges, tmpdirs, files, pc, req, td, file_path, local, call, alive, hist, resp>>
wsvars == <<wpc, sock, inbox, sent, data_raw, ai_resp, payload, stop_event, ping_task, whist, left>>
vars == <<runvars, wsvars>>

None == [kind |-> "none"]

----------------------------------------------------------------------------
(* Bounds *)

MaxTmpNames == 2      \* size of the pool mkdtemp draws directory names from
MaxEnvChanges == 1    \* installs/removals of executables during a run

(* Program constants *)

DefaultTimeout == 30  \* run_command / run_linter_for_language timeout=30
TimeoutCode == 124
RunnerErrorCode == 125

----------------------------------------------------------------------------
(* The environment *)

Exes == {"python", "python3", "pylint", "node", "eslint", "javac", "java",
         "gcc", "clang", "g++", "clang++"}

BinDir == "/usr/bin/"

\* a locator that remembers every executable a request has found before
which_Remembered(name) ==
    IF name \in path \/ \E w \in DOMAIN hist : <<name, TRUE>> \in hist[w].seen
    THEN [kind |-> "path", s |-> BinDir \o name] ELSE None

\* shutil.which(name): the full path of the executable, or None
which(name) == IF name \in path THEN [kind |-> "path", s |-> BinDir \o name] ELSE None

\* runner.py is_executable_available
is_executable_available(name) == which(name) # None

\* os.name of the host
os_name == "posix"

TmpRoot == <<"tmp">>
TmpNames == {"tmp" \o ToString(i) : i \in 1..MaxTmpNames}

\* directories that exist apart from the temporary ones
StaticDirs == {<<>>, TmpRoot, <<"srv">>}

ExistingDirs(tds) == StaticDirs \cup {TmpRoot \o <<n>> : n \in {m \in TmpNames : tds[m] # 0}}

\* The directory the operating system reaches by walking the components
\* `rest` from the existing directory `cur`; None if a component is missing.
RECURSIVE Walk(_, _, _)
Walk(cur, rest, dirs) ==
    IF cur \notin dirs THEN None
    ELSE IF rest = <<>> THEN [kind |-> "dir", d |-> cur]
    ELSE IF Head(rest) = ".."
         THEN Walk(IF cur = <<>> THEN <<>> ELSE SubSeq(cur, 1, Len(cur) - 1), Tail(rest), dirs)
         ELSE Walk(cur \o <<Head(rest)>>, Tail(rest), dirs)

IsPrefix(s, t) == Len(s) <= Len(t) /\ SubSeq(t, 1, Len(s)) = s

RECURSIVE JoinDirs(_)
JoinDirs(ds) == IF ds = <<>> THEN "" ELSE "/" \o Head(ds) \o JoinDirs(Tail(ds))

\* str(Path(...)) of a directory and of a file
DirStr(ds) == IF ds = <<>> THEN "/" ELSE JoinDirs(ds)
PathStr(p) == JoinDirs(p.dirs) \o "/" \o p.stem \o p.ext

----------------------------------------------------------------------------
(* Requests *)

\* language strings a client sends
Languages == {"python", "py", "javascript", "js", "node", "java", "c", "cpp", "c++",
              "Java", " c ", "ruby"}

\* str.lower() and str.strip() on the strings above
lower(s) == IF s = "Java" THEN "java" ELSE s
strip(s) == IF s = " c " THEN "c" ELSE s

\* A client file name: absolute or relative, directory components, stem, suffix.
FileName(abs, dirs, stem, ext) == [kind |-> "name", abs |-> abs, dirs |-> dirs, stem |-> stem, ext |-> ext]

BareName     == FileName(FALSE, <<>>, "app", ".py")          \* "app.py"
NestedName   == FileName(FALSE, <<"sub">>, "app", ".py")     \* "sub/app.py"
ParentName   == FileName(FALSE, <<"..">>, "app", ".py")      \* "../app.py"
AbsoluteName == FileName(TRUE, <<"srv">>, "app", ".py")      \* "/srv/app.py"

\* RunRequest.filename: None when the client sends none
FileNames == {None, BareName, NestedName, ParentName, AbsoluteName}

\* api.py run_code: extension chosen from the language
ext_of(lang) ==
    CASE lang = "python"     -> ".py"
      [] lang = "javascript" -> ".js"
      [] lang = "java"       -> ".java"
      [] lang = "c"          -> ".c"
      [] lang = "cpp"        -> ".cpp"
      [] lang = "c++"        -> ".cpp"
      [] OTHER               -> ".txt"

\* a temporary directory, as the value of `td` in run_code
TempDir(n) == [kind |-> "tempdir", name |-> n]

\* the directory of the temporary directory tdir
TdDir(tdir) == TmpRoot \o <<tdir.name>>

\* os.path.join(td, name)
path_join(tdir, name) ==
    [dirs |-> IF name.abs THEN name.dirs ELSE TdDir(tdir) \o name.dirs,
     stem |-> name.stem, ext |-> name.ext]

\* api.py: file_path = os.path.join(td, req.filename or f"main{ext}")
api_file_path(tdir, filename, lang) ==
    path_join(tdir, IF filename # None THEN filename
                      ELSE FileName(FALSE, <<>>, "main", ext_of(lang)))

\* a file or directory location lies inside the temporary directory tdir
Inside(dir, tdir) == IsPrefix(TdDir(tdir), dir)

\* TemporaryDirectory.__exit__: the directory and everything below it is removed
cleanup_dirs(tds, tdir) == [tds EXCEPT ![tdir.name] = 0]
cleanup_files(fs, tdir) == {f \in fs : ~Inside(f.dir, tdir)}

\* open(path, "w") / a compiler writing its output: create or replace the file
write_file(fs, dir, name, owner) ==
    {f \in fs : ~(f.dir = dir /\ f.name = name)} \cup {[dir |-> dir, name |-> name, owner |-> owner]}

----------------------------------------------------------------------------
(* runner.py run_command *)

\* shlex.quote: an argument made only of safe characters is left as it is
Arg(s) == [s |-> s, plain |-> TRUE]
shlex_quote(a) == IF a.plain THEN a.s ELSE "'" \o a.s \o "'"

\* " ".join(shlex.quote(str(a)) for a in cmd)
RECURSIVE executed_string(_)
executed_string(cmd) ==
    IF cmd = <<>> THEN ""
    ELSE IF Len(cmd) = 1 THEN shlex_quote(cmd[1])
    ELSE shlex_quote(cmd[1]) \o " " \o executed_string(Tail(cmd))

Result(out, err, rc, executed) ==
    [kind |-> "return", stdout |-> out, stderr |-> err, rc |-> rc, executed |-> executed]

Raised == [kind |-> "raise"]

\* exit statuses a child process may itself produce
ExitCodes == {0, 1, 124, 125}

\* what can happen to a launched child
ChildOutcomes == [kind : {"exit"}, rc : ExitCodes] \cup {[kind |-> "timeout"], [kind |-> "garbled"]}
\* what can keep a child from being launched
LaunchErrors == {"notfound", "oserror"}

ChildStdout(phase) == IF phase = "compile" THEN "compiler output" ELSE "program output"
ChildStderr(phase) == IF phase = "compile" THEN "compiler diagnostics" ELSE "program diagnostics"

TimeoutMessage == "TimeoutExpired: process exceeded " \o ToString(DefaultTimeout) \o " seconds"
NotFoundMessage == "RunnerError: [WinError 2] The system cannot find the file specified: [Errno 2]"
ErrorMessage(what) == "RunnerError: " \o what

\* run_command without the final "except Exception" clause
run_command_Unguarded(cmd, phase, event) ==
    LET executed == executed_string(cmd) IN
    CASE event.kind = "exit"     -> Result(ChildStdout(phase), ChildStderr(phase), event.rc, executed)
      [] event.kind = "timeout"  -> Result("", TimeoutMessage, TimeoutCode, executed)
      [] event.kind = "notfound" -> Result("", NotFoundMessage, RunnerErrorCode, executed)
      [] OTHER                   -> Raised

\* run_command without the "except subprocess.TimeoutExpired" clause
run_command_NoTimeoutClause(cmd, phase, event) ==
    LET executed == executed_string(cmd) IN
    CASE event.kind = "exit"     -> Result(ChildStdout(phase), ChildStderr(phase), event.rc, executed)
      [] event.kind = "notfound" -> Result("", NotFoundMessage, RunnerErrorCode, executed)
      [] OTHER                   -> Result("", ErrorMessage("Command timed out after 30 seconds"), RunnerErrorCode, executed)

\* run_command that lets FileNotFoundError through
run_command_NotFoundRaises(cmd, phase, event) ==
    LET executed == executed_string(cmd) IN
    CASE event.kind = "exit"     -> Result(ChildStdout(phase), ChildStderr(phase), event.rc, executed)
      [] event.kind = "timeout"  -> Result("", TimeoutMessage, TimeoutCode, executed)
      [] event.kind = "notfound" -> Raised
      [] event.kind = "oserror"  -> Result("", ErrorMessage("[Errno 13] Permission denied"), RunnerErrorCode, executed)
      [] event.kind = "garbled"  -> Result("", ErrorMessage("codec can't decode byte"), RunnerErrorCode, executed)

\* the value run_command returns for what happened inside subprocess.run
run_command(cmd, phase, event) ==
    LET executed == executed_string(cmd) IN
    CASE event.kind = "exit"     -> Result(ChildStdout(phase), ChildStderr(phase), event.rc, executed)
      [] event.kind = "timeout"  -> Result("", TimeoutMessage, TimeoutCode, executed)
      [] event.kind = "notfound" -> Result("", NotFoundMessage, RunnerErrorCode, executed)
      [] event.kind = "oserror"  -> Result("", ErrorMessage("[Errno 13] Permission denied"), RunnerErrorCode, executed)
      [] event.kind = "garbled"  -> Result("", ErrorMessage("codec can't decode byte"), RunnerErrorCode, executed)

\* runner.py _make_executable_path
_make_executable_path(cwd, name) ==
    IF os_name = "nt" THEN [dir |-> cwd, name |-> name \o ".exe"]
    ELSE [dir |-> cwd, name |-> name]

----------------------------------------------------------------------------
(* The state machine *)

Workers == {1}
ConcWorkers == {1, 2}
AllWorkers == Workers \cup ConcWorkers

\* td: the directory created for the request; seen: what the locator reported;
\* attempted: phases for which subprocess.run was entered; spawned: phases whose
\* child was created; calls: for each finished run_command call its phase, what
\* happened inside subprocess.run and the value the call returned
NoHist == [td |-> None, seen |-> {}, attempted |-> <<>>, spawned |-> <<>>, calls |-> <<>>]
NoLocal == [lang |-> "", cwd |-> <<>>, comp |-> None, result |-> None]

\* PATH contents at start: within one toolchain family anything may be missing
Families == {{"python", "python3", "pylint"}, {"node", "eslint"}, {"javac", "java"},
             {"gcc", "clang"}, {"g++", "clang++"}}
InitPaths == {Exes \ missing : missing \in UNION {SUBSET f : f \in Families}}

StartState ==
    /\ envChanges = 0
    /\ tmpdirs = [n \in TmpNames |-> 0]
    /\ files = {}
    /\ pc = [w \in AllWorkers |-> "idle"]
    /\ req = [w \in AllWorkers |-> None]
    /\ td = [w \in AllWorkers |-> None]
    /\ file_path = [w \in AllWorkers |-> None]
    /\ local = [w \in AllWorkers |-> NoLocal]
    /\ call = [w \in AllWorkers |-> None]
    /\ alive = [w \in AllWorkers |-> {}]
    /\ hist = [w \in AllWorkers |-> NoHist]
    /\ resp = [w \in AllWorkers |-> None]

\* no WebSocket connection yet
WsStart ==
    /\ wpc = "start"
    /\ sock = "open"
    /\ inbox = <<>>
    /\ sent = <<>>
    /\ data_raw = None
    /\ ai_resp = None
    /\ payload = None
    /\ stop_event = FALSE
    /\ ping_task = "none"
    /\ whist = <<>>
    /\ left = None

Init == path \in InitPaths /\ StartState /\ WsStart

\* the executables the branch of a language looks up or launches
ToolsOf(lang) ==
    CASE lang \in {"python", "py"}             -> {"python", "python3", "pylint"}
      [] lang \in {"javascript", "js", "node"} -> {"node", "eslint"}
      [] lang = "java"                         -> {"javac", "java"}
      [] lang = "c"                            -> {"gcc", "clang"}
      [] lang \in {"cpp", "c++"}               -> {"g++", "clang++"}
      [] OTHER                                 -> {"python", "python3"}

\* An executable is installed or removed while a request is being served.
\* Only changes a request in progress can observe are taken: the executable is
\* one that the branch of its language looks up.
EnvChange(e) ==
    /\ envChanges < MaxEnvChanges
    /\ \E w \in AllWorkers :
           /\ pc[w] \notin {"idle", "done"}
           /\ e \in ToolsOf(strip(lower(req[w].language)))
    /\ envChanges' = envChanges + 1
    /\ path' = IF e \in path THEN path \ {e} ELSE path \cup {e}
    /\ UNCHANGED <<tmpdirs, files, pc, req, td, file_path, local, call, alive, hist, resp, wsvars>>

\* run_code with a directory name that is not checked for being in use
Begin_AnyName(w, language, filename, n) ==
    /\ pc[w] = "idle"
    /\ n \in TmpNames
    /\ tmpdirs' = [tmpdirs EXCEPT ![n] = w]
    /\ td' = [td EXCEPT ![w] = TempDir(n)]
    /\ hist' = [hist EXCEPT ![w] = [NoHist EXCEPT !.td = TempDir(n)]]
    /\ req' = [req EXCEPT ![w] = [language |-> language, filename |-> filename]]
    /\ pc' = [pc EXCEPT ![w] = "write"]
    /\ UNCHANGED <<path, envChanges, files, file_path, local, call, alive, resp, wsvars>>

\* api.py run_code up to the creation of the temporary directory; n is the
\* name mkdtemp picks, one that does not exist yet
Begin(w, language, filename, n) ==
    /\ pc[w] = "idle"
    /\ n \in TmpNames
    /\ tmpdirs[n] = 0
    /\ tmpdirs' = [tmpdirs EXCEPT ![n] = w]
    /\ td' = [td EXCEPT ![w] = TempDir(n)]
    /\ hist' = [hist EXCEPT ![w] = [NoHist EXCEPT !.td = TempDir(n)]]
    /\ req' = [req EXCEPT ![w] = [language |-> language, filename |-> filename]]
    /\ pc' = [pc EXCEPT ![w] = "write"]
    /\ UNCHANGED <<path, envChanges, files, file_path, local, call, alive, resp, wsvars>>

\* api.py: the source file is written
WriteSource(w) ==
    /\ pc[w] = "write"
    /\ LET fp == api_file_path(td[w], req[w].filename, lower(req[w].language))
           target == Walk(<<>>, fp.dirs, ExistingDirs(tmpdirs))
       IN /\ target # None
          /\ files' = write_file(files, target.d, fp.stem \o fp.ext, w)
          /\ file_path' = [file_path EXCEPT ![w] = fp]
    /\ pc' = [pc EXCEPT ![w] = "dispatch"]
    /\ UNCHANGED <<path, envChanges, tmpdirs, req, td, local, call, alive, hist, resp, wsvars>>

\* api.py: open() or write() raises
WriteSourceRaises(w, created) ==
    /\ pc[w] = "write"
    /\ LET fp == api_file_path(td[w], req[w].filename, lower(req[w].language))
           target == Walk(<<>>, fp.dirs, ExistingDirs(tmpdirs))
           written == IF created /\ target # None
                      THEN write_file(files, target.d, fp.stem \o fp.ext, w) ELSE files
       IN /\ target = None => ~created
          /\ files' = written
    /\ pc' = [pc EXCEPT ![w] = "raising"]
    /\ UNCHANGED <<path, envChanges, tmpdirs, req, td, file_path, local, call, alive, hist, resp, wsvars>>

\* run_code with mkdtemp and a removal on the normal path only
Unwind_NoCleanup(w) ==
    /\ pc[w] = "raising"
    /\ td' = [td EXCEPT ![w] = None]
    /\ resp' = [resp EXCEPT ![w] = [kind |-> "error"]]
    /\ pc' = [pc EXCEPT ![w] = "done"]
    /\ UNCHANGED <<path, envChanges, tmpdirs, files, req, file_path, local, call, alive, hist, wsvars>>

\* an exception leaves the with block of run_code: the directory is removed
\* and the request fails
Unwind(w) ==
    /\ pc[w] = "raising"
    /\ tmpdirs' = cleanup_dirs(tmpdirs, td[w])
    /\ files' = cleanup_files(files, td[w])
    /\ td' = [td EXCEPT ![w] = None]
    /\ resp' = [resp EXCEPT ![w] = [kind |-> "error"]]
    /\ pc' = [pc EXCEPT ![w] = "done"]
    /\ UNCHANGED <<path, envChanges, req, file_path, local, call, alive, hist, wsvars>>

----------------------------------------------------------------------------
(* runner.py run_linter_for_language *)

Goto(w, newpc, newlocal, newcall) ==
    /\ pc' = [pc EXCEPT ![w] = newpc]
    /\ local' = [local EXCEPT ![w] = newlocal]
    /\ call' = [call EXCEPT ![w] = newcall]

\* return <result> from run_linter_for_language
Return(w, result) == Goto(w, "returned", [local[w] EXCEPT !.result = result], None)

\* run_command(cmd, cwd=cwd, timeout=timeout) is entered
Invoke(w, phase, cmd, exe, newlocal) ==
    Goto(w, "launch", newlocal, [phase |-> phase, cmd |-> cmd, exe |-> exe])

Tool(name) == [kind |-> "tool", name |-> name]
Artifact(loc) == [kind |-> "file", dir |-> loc.dir, name |-> loc.name]

Saw(w, name, found) == hist' = [hist EXCEPT ![w].seen = @ \cup {<<name, found>>}]

SourceArg(w) == Arg(PathStr(file_path[w]))

NoPythonMessage == "No python interpreter or pylint found on PATH."
NoNodeMessage == "No node or eslint found on PATH."
NoJavacMessage == "No javac found on PATH. Please install JDK and add javac to PATH."
\* (the back quotes around java in the message are left out)
NoJavaMessage == "Compiled but java runtime not found on PATH."
NoCompilerMessage == "No C/C++ compiler found on PATH. Install gcc/g++ or clang."
NoRunnerMessage(language) == "No runner available for language '" \o language \o "'."

PythonLangs == {"python", "py"}
JsLangs == {"javascript", "js", "node"}
CppLangs == {"cpp", "c++"}
CLangs == {"c"} \cup CppLangs

\* the language argument api.py hands to run_linter_for_language
language_arg(w) == lower(req[w].language)

\* the fallback branch without the "if p.suffix == '.py'" test
Dispatch_FallbackAny(w) ==
    /\ pc[w] = "dispatch"
    /\ LET p == file_path[w]
           lang == lower(strip(language_arg(w)))
           l0 == [NoLocal EXCEPT !.lang = lang, !.cwd = p.dirs]
       IN CASE lang \in PythonLangs -> Goto(w, "py_python", l0, None)
            [] lang \in JsLangs     -> Goto(w, "js_node", l0, None)
            [] lang = "java"        -> Goto(w, "java_javac", l0, None)
            [] lang \in CLangs      -> Goto(w, "cc_first", l0, None)
            [] OTHER                -> Goto(w, "fb_python", l0, None)
    /\ UNCHANGED <<path, envChanges, tmpdirs, files, req, td, file_path, alive, hist, resp, wsvars>>

\* lines 82-88, 100, 112, 130, 168-170: the branch is selected
Dispatch(w) ==
    /\ pc[w] = "dispatch"
    /\ LET p == file_path[w]
           lang == lower(strip(language_arg(w)))
           l0 == [NoLocal EXCEPT !.lang = lang, !.cwd = p.dirs]
       IN CASE lang \in PythonLangs -> Goto(w, "py_python", l0, None)
            [] lang \in JsLangs     -> Goto(w, "js_node", l0, None)
            [] lang = "java"        -> Goto(w, "java_javac", l0, None)
            [] lang \in CLangs      -> Goto(w, "cc_first", l0, None)
            [] OTHER -> IF p.ext = ".py"
                        THEN Goto(w, "fb_python", l0, None)
                        ELSE Goto(w, "returned",
                                  [l0 EXCEPT !.result = Result("", NoRunnerMessage(language_arg(w)), RunnerErrorCode, "")],
                                  None)
    /\ UNCHANGED <<path, envChanges, tmpdirs, files, req, td, file_path, alive, hist, resp, wsvars>>

\* lines 89-97: python, then python3, then pylint
LocatePython(w) ==
    /\ pc[w] \in {"py_python", "py_python3", "py_pylint"}
    /\ LET name == CASE pc[w] = "py_python" -> "python"
                     [] pc[w] = "py_python3" -> "python3"
                     [] pc[w] = "py_pylint" -> "pylint"
           found == which(name)
       IN /\ Saw(w, name, found # None)
          /\ CASE found # None /\ pc[w] # "py_pylint" ->
                      Invoke(w, "single", <<Arg(found.s), SourceArg(w)>>, Tool(name), local[w])
               [] found # None /\ pc[w] = "py_pylint" ->
                      Invoke(w, "single", <<Arg("pylint"), SourceArg(w)>>, Tool(name), local[w])
               [] found = None /\ pc[w] = "py_python" -> Goto(w, "py_python3", local[w], None)
               [] found = None /\ pc[w] = "py_python3" -> Goto(w, "py_pylint", local[w], None)
               [] found = None /\ pc[w] = "py_pylint" ->
                      Return(w, Result("", NoPythonMessage, RunnerErrorCode, ""))
    /\ UNCHANGED <<path, envChanges, tmpdirs, files, req, td, file_path, alive, resp, wsvars>>

\* lines 102-109: node, then eslint
LocateNode(w) ==
    /\ pc[w] \in {"js_node", "js_eslint"}
    /\ LET name == IF pc[w] = "js_node" THEN "node" ELSE "eslint"
           found == is_executable_available(name)
       IN /\ Saw(w, name, found)
          /\ CASE found -> Invoke(w, "single", <<Arg(name), SourceArg(w)>>, Tool(name), local[w])
               [] ~found /\ pc[w] = "js_node" -> Goto(w, "js_eslint", local[w], None)
               [] ~found /\ pc[w] = "js_eslint" ->
                      Return(w, Result("", NoNodeMessage, RunnerErrorCode, ""))
    /\ UNCHANGED <<path, envChanges, tmpdirs, files, req, td, file_path, alive, resp, wsvars>>

\* the java branch without the "if not is_executable_available('javac')" return
LocateJavac_NoCheck(w) ==
    /\ pc[w] = "java_javac"
    /\ Saw(w, "javac", is_executable_available("javac"))
    /\ Invoke(w, "compile", <<Arg("javac"), SourceArg(w)>>, Tool("javac"), local[w])
    /\ UNCHANGED <<path, envChanges, tmpdirs, files, req, td, file_path, alive, resp, wsvars>>

\* lines 113-117: javac
LocateJavac(w) ==
    /\ pc[w] = "java_javac"
    /\ LET found == is_executable_available("javac")
       IN /\ Saw(w, "javac", found)
          /\ IF found
             THEN Invoke(w, "compile", <<Arg("javac"), SourceArg(w)>>, Tool("javac"), local[w])
             ELSE Return(w, Result("", NoJavacMessage, RunnerErrorCode, ""))
    /\ UNCHANGED <<path, envChanges, tmpdirs, files, req, td, file_path, alive, resp, wsvars>>

\* the java branch without the "if not is_executable_available('java')" return
LocateJava_RunsAnyway(w) ==
    /\ pc[w] = "java_java"
    /\ Saw(w, "java", is_executable_available("java"))
    /\ Invoke(w, "run", <<Arg("java"), Arg("-cp"), Arg(DirStr(local[w].cwd)), Arg(file_path[w].stem)>>,
              Tool("java"), local[w])
    /\ UNCHANGED <<path, envChanges, tmpdirs, files, req, td, file_path, alive, resp, wsvars>>

\* lines 121-125: the java runtime, looked up after a successful compile
LocateJava(w) ==
    /\ pc[w] = "java_java"
    /\ LET found == is_executable_available("java")
           class_name == file_path[w].stem
           comp == local[w].comp
       IN /\ Saw(w, "java", found)
          /\ IF found
             THEN Invoke(w, "run", <<Arg("java"), Arg("-cp"), Arg(DirStr(local[w].cwd)), Arg(class_name)>>,
                         Tool("java"), local[w])
             ELSE Return(w, Result(comp.stdout, NoJavaMessage, RunnerErrorCode, comp.executed))
    /\ UNCHANGED <<path, envChanges, tmpdirs, files, req, td, file_path, alive, resp, wsvars>>

exe_name == "a_out_exec"

\* a compiler lookup that tries clang / clang++ first
LocateCompiler_ClangFirst(w) ==
    /\ pc[w] \in {"cc_first", "cc_second"}
    /\ LET is_cpp == local[w].lang \in CppLangs
           name == CASE pc[w] = "cc_first" /\ is_cpp -> "clang++"
                     [] pc[w] = "cc_second" /\ is_cpp -> "g++"
                     [] pc[w] = "cc_first" /\ ~is_cpp -> "clang"
                     [] pc[w] = "cc_second" /\ ~is_cpp -> "gcc"
           found == is_executable_available(name)
           exe_path == _make_executable_path(local[w].cwd, exe_name)
           compile_cmd == <<Arg(name), SourceArg(w), Arg("-o"), Arg(DirStr(exe_path.dir) \o "/" \o exe_path.name)>>
       IN /\ Saw(w, name, found)
          /\ CASE found -> Invoke(w, "compile", compile_cmd, Tool(name), local[w])
               [] ~found /\ pc[w] = "cc_first" -> Goto(w, "cc_second", local[w], None)
               [] ~found /\ pc[w] = "cc_second" ->
                      Return(w, Result("", NoCompilerMessage, RunnerErrorCode, ""))
    /\ UNCHANGED <<path, envChanges, tmpdirs, files, req, td, file_path, alive, resp, wsvars>>

\* lines 131-157: g++ then clang++ for C++, gcc then clang for C
LocateCompiler(w) ==
    /\ pc[w] \in {"cc_first", "cc_second"}
    /\ LET is_cpp == local[w].lang \in CppLangs
           name == CASE pc[w] = "cc_first" /\ is_cpp -> "g++"
                     [] pc[w] = "cc_second" /\ is_cpp -> "clang++"
                     [] pc[w] = "cc_first" /\ ~is_cpp -> "gcc"
                     [] pc[w] = "cc_second" /\ ~is_cpp -> "clang"
           found == is_executable_available(name)
           exe_path == _make_executable_path(local[w].cwd, exe_name)
           base_cmd == <<Arg(name), SourceArg(w), Arg("-o"), Arg(DirStr(exe_path.dir) \o "/" \o exe_path.name)>>
           compile_cmd == IF is_cpp /\ name \in {"g++", "clang++"}
                          THEN base_cmd \o <<Arg("-std=c++17")>> ELSE base_cmd
       IN /\ Saw(w, name, found)
          /\ CASE found -> Invoke(w, "compile", compile_cmd, Tool(name), local[w])
               [] ~found /\ pc[w] = "cc_first" -> Goto(w, "cc_second", local[w], None)
               [] ~found /\ pc[w] = "cc_second" ->
                      Return(w, Result("", NoCompilerMessage, RunnerErrorCode, ""))
    /\ UNCHANGED <<path, envChanges, tmpdirs, files, req, td, file_path, alive, resp, wsvars>>

\* lines 170-175: an unknown language with a .py file falls back to python
LocateFallback(w) ==
    /\ pc[w] \in {"fb_python", "fb_python3"}
    /\ LET name == IF pc[w] = "fb_python" THEN "python" ELSE "python3"
           found == which(name)
       IN /\ Saw(w, name, found # None)
          /\ CASE found # None ->
                      Invoke(w, "single", <<Arg(found.s), SourceArg(w)>>, Tool(name), local[w])
               [] found = None /\ pc[w] = "fb_python" -> Goto(w, "fb_python3", local[w], None)
               [] found = None /\ pc[w] = "fb_python3" ->
                      Return(w, Result("", NoRunnerMessage(language_arg(w)), RunnerErrorCode, ""))
    /\ UNCHANGED <<path, envChanges, tmpdirs, files, req, td, file_path, alive, resp, wsvars>>

----------------------------------------------------------------------------
(* subprocess.run inside run_command, and what follows the call *)

\* the operating system can start the program
Launchable(exe) ==
    IF exe.kind = "tool" THEN exe.name \in path
    ELSE LET d == Walk(<<>>, exe.dir, ExistingDirs(tmpdirs))
         IN d # None /\ \E f \in files : f.dir = d.d /\ f.name = exe.name

\* the run phase's command alone
executed_full_RunOnly(executed_compile, executed_run) == executed_run

\* lines 126 and 164: executed_full = f"{executed_compile} ; {executed_run}"
executed_full(executed_compile, executed_run) == executed_compile \o " ; " \o executed_run

\* run_linter_for_language without the "if rc_c != 0" checks
AfterCall_RunsAnyway(w, r, fs) ==
    LET phase == call[w].phase
        comp == local[w].comp
        exe_path == _make_executable_path(local[w].cwd, exe_name)
    IN /\ CASE phase = "single" -> Return(w, r)
            [] phase = "compile" /\ local[w].lang = "java" ->
                   Goto(w, "java_java", [local[w] EXCEPT !.comp = r], None)
            [] phase = "compile" /\ local[w].lang # "java" ->
                   Invoke(w, "run", <<Arg(DirStr(exe_path.dir) \o "/" \o exe_path.name)>>,
                          Artifact(exe_path), [local[w] EXCEPT !.comp = r])
            [] phase = "run" ->
                   Return(w, Result(r.stdout, r.stderr, r.rc, executed_full(comp.executed, r.executed)))
       /\ files' = fs

\* lines 118-127 and 158-165, and the return of the single-step branches:
\* what run_linter_for_language does with the value r of the run_command call;
\* fs is the file system the call leaves behind
AfterCall(w, r, fs) ==
    LET phase == call[w].phase
        comp == local[w].comp
        exe_path == _make_executable_path(local[w].cwd, exe_name)
    IN IF r.kind = "raise"
       THEN \* the exception leaves run_linter_for_language
            /\ Goto(w, "raising", local[w], None)
            /\ files' = fs
       ELSE /\ CASE phase = "single" -> Return(w, r)
                 [] phase = "compile" /\ r.rc # 0 -> Return(w, r)
                 [] phase = "compile" /\ r.rc = 0 /\ local[w].lang = "java" ->
                        Goto(w, "java_java", [local[w] EXCEPT !.comp = r], None)
                 [] phase = "compile" /\ r.rc = 0 /\ local[w].lang # "java" ->
                        Invoke(w, "run", <<Arg(DirStr(exe_path.dir) \o "/" \o exe_path.name)>>,
                               Artifact(exe_path), [local[w] EXCEPT !.comp = r])
                 [] phase = "run" ->
                        Return(w, Result(r.stdout, r.stderr, r.rc, executed_full(comp.executed, r.executed)))
            /\ files' = fs

\* run_command that starts the compiler and does not wait for it
Launch_NoWait(w) ==
    /\ pc[w] = "launch"
    /\ Launchable(call[w].exe)
    /\ alive' = [alive EXCEPT ![w] = @ \cup {call[w].phase}]
    /\ hist' = [hist EXCEPT ![w].attempted = Append(@, call[w].phase),
                            ![w].spawned = Append(@, call[w].phase)]
    /\ IF call[w].phase = "compile"
       THEN /\ AfterCall(w, Result("", "", 0, executed_string(call[w].cmd)), files)
            /\ UNCHANGED <<path, envChanges, tmpdirs, req, td, file_path, resp, wsvars>>
       ELSE /\ pc' = [pc EXCEPT ![w] = "wait"]
            /\ UNCHANGED <<path, envChanges, tmpdirs, files, req, td, file_path, local, call, resp, wsvars>>

\* subprocess.run creates the child process
Launch(w) ==
    /\ pc[w] = "launch"
    /\ Launchable(call[w].exe)
    /\ alive' = [alive EXCEPT ![w] = @ \cup {call[w].phase}]
    /\ hist' = [hist EXCEPT ![w].attempted = Append(@, call[w].phase),
                            ![w].spawned = Append(@, call[w].phase)]
    /\ pc' = [pc EXCEPT ![w] = "wait"]
    /\ UNCHANGED <<path, envChanges, tmpdirs, files, req, td, file_path, local, call, resp, wsvars>>

\* subprocess.run raises before a child exists: FileNotFoundError when the
\* program is not there, another OSError (permissions, resources) at any time
LaunchFails(w, err) ==
    /\ pc[w] = "launch"
    /\ err \in LaunchErrors
    /\ err = "notfound" => ~Launchable(call[w].exe)
    /\ LET r == run_command(call[w].cmd, call[w].phase, [kind |-> err])
       IN /\ hist' = [hist EXCEPT ![w].attempted = Append(@, call[w].phase),
                                  ![w].calls = Append(@, [phase |-> call[w].phase, event |-> [kind |-> err], result |-> r])]
          /\ AfterCall(w, r, files)
    /\ UNCHANGED <<path, envChanges, tmpdirs, req, td, file_path, alive, resp, wsvars>>

\* what a compiler that exits with 0 leaves in the directory of the source
compile_output(w) ==
    IF local[w].lang = "java" THEN [dir |-> local[w].cwd, name |-> file_path[w].stem \o ".class"]
    ELSE _make_executable_path(local[w].cwd, exe_name)

\* the child exits, or the timeout expires and the child is killed
ChildEnds(w, event) ==
    /\ pc[w] = "wait"
    /\ event \in ChildOutcomes
    /\ alive' = [alive EXCEPT ![w] = @ \ {call[w].phase}]
    /\ LET out == compile_output(w)
           d == Walk(<<>>, out.dir, ExistingDirs(tmpdirs))
           fs == IF call[w].phase = "compile" /\ event.kind = "exit" /\ event.rc = 0 /\ d # None
                 THEN write_file(files, d.d, out.name, w) ELSE files
           r == run_command(call[w].cmd, call[w].phase, event)
       IN /\ hist' = [hist EXCEPT ![w].calls = Append(@, [phase |-> call[w].phase, event |-> event, result |-> r])]
          /\ AfterCall(w, r, fs)
    /\ UNCHANGED <<path, envChanges, tmpdirs, req, td, file_path, resp, wsvars>>

\* api.py lines 82-88: the response is built and the with block is left
Respond(w) ==
    /\ pc[w] = "returned"
    /\ LET r == local[w].result
       IN resp' = [resp EXCEPT ![w] = [kind |-> "ok", stdout |-> r.stdout, stderr |-> r.stderr,
                                       rc |-> r.rc, executed_cmd |-> r.executed,
                                       used_filename |-> PathStr(file_path[w])]]
    /\ tmpdirs' = cleanup_dirs(tmpdirs, td[w])
    /\ files' = cleanup_files(files, td[w])
    /\ td' = [td EXCEPT ![w] = None]
    /\ pc' = [pc EXCEPT ![w] = "done"]
    /\ UNCHANGED <<path, envChanges, req, file_path, local, call, alive, hist, wsvars>>

\* the worker takes up the next request
Reset(w) ==
    /\ pc[w] = "done"
    /\ pc' = [pc EXCEPT ![w] = "idle"]
    /\ req' = [req EXCEPT ![w] = None]
    /\ file_path' = [file_path EXCEPT ![w] = None]
    /\ local' = [local EXCEPT ![w] = NoLocal]
    /\ hist' = [hist EXCEPT ![w] = NoHist]
    /\ resp' = [resp EXCEPT ![w] = None]
    /\ UNCHANGED <<path, envChanges, tmpdirs, files, td, call, alive, wsvars>>

\* the steps of one request that take no input
Step(w) ==
    \/ WriteSource(w)
    \/ Dispatch(w)
    \/ LocatePython(w)
    \/ LocateNode(w)
    \/ LocateJavac(w)
    \/ LocateJava(w)
    \/ LocateCompiler(w)
    \/ LocateFallback(w)
    \/ Launch(w)
    \/ Respond(w)
    \/ Unwind(w)

\* With a single request the name of its directory makes no difference.
FirstTmpName == {"tmp1"}

\* one worker serving one request: every language and file name, a changing PATH
Next ==
    \/ \E w \in Workers, language \in Languages, filename \in FileNames, n \in FirstTmpName :
           Begin(w, language, filename, n)
    \/ \E w \in Workers : Step(w)
    \/ \E w \in Workers, created \in BOOLEAN : WriteSourceRaises(w, created)
    \/ \E w \in Workers, err \in LaunchErrors : LaunchFails(w, err)
    \/ \E w \in Workers, event \in ChildOutcomes : ChildEnds(w, event)
    \/ \E e \in Exes : EnvChange(e)

Spec == Init /\ [][Next]_vars

----------------------------------------------------------------------------
(* Two workers serving /run requests at the same time, one after another *)

ConcLanguages == {"python", "c"}
ConcFileNames == {None, AbsoluteName}
ConcOutcomes == {[kind |-> "exit", rc |-> 0], [kind |-> "exit", rc |-> 1], [kind |-> "timeout"]}
ConcPaths == {Exes, Exes \ {"gcc", "clang"}}

InitConc == path \in ConcPaths /\ StartState /\ WsStart

NextConc ==
    \/ \E w \in ConcWorkers, language \in ConcLanguages, filename \in ConcFileNames, n \in TmpNames :
           Begin(w, language, filename, n)
    \/ \E w \in ConcWorkers : WriteSource(w)
    \/ \E w \in ConcWorkers : WriteSourceRaises(w, TRUE)
    \/ \E w \in ConcWorkers : Dispatch(w)
    \/ \E w \in ConcWorkers : LocatePython(w)
    \/ \E w \in ConcWorkers : LocateCompiler(w)
    \/ \E w \in ConcWorkers : Launch(w)
    \/ \E w \in ConcWorkers : LaunchFails(w, "oserror")
    \/ \E w \in ConcWorkers, event \in ConcOutcomes : ChildEnds(w, event)
    \/ \E w \in ConcWorkers : Respond(w)
    \/ \E w \in ConcWorkers : Unwind(w)
    \/ \E w \in ConcWorkers : Reset(w)

SpecConc == InitConc /\ [][NextConc]_vars

----------------------------------------------------------------------------
(* The requests of one server process, with PATH changing in between.       *)
(* run_code is a coroutine that awaits nothing: subprocess.run blocks the   *)
(* thread of the event loop, which therefore runs a run_code handler from  *)
(* its first statement to its return before it runs anything else.         *)

SeqLanguages == {"ruby", "python"}
SeqFileNames == {BareName}
SeqPaths == {Exes \ missing : missing \in SUBSET {"python", "python3", "pylint"}}

InitSeq == path \in SeqPaths /\ StartState /\ WsStart

\* a handler is between its entry and its return
Active(w) == pc[w] \notin {"idle", "done"}

\* the event loop enters run_code for a request: no other handler is running on it
BeginOnLoop(w, language, filename, n) ==
    /\ \A v \in ConcWorkers \ {w} : ~Active(v)
    /\ Begin(w, language, filename, n)

NextSeq ==
    \/ \E w \in ConcWorkers, language \in SeqLanguages, filename \in SeqFileNames, n \in TmpNames :
           BeginOnLoop(w, language, filename, n)
    \/ \E w \in ConcWorkers : WriteSource(w)
    \/ \E w \in ConcWorkers : Dispatch(w)
    \/ \E w \in ConcWorkers : LocatePython(w)
    \/ \E w \in ConcWorkers : LocateFallback(w)
    \/ \E w \in ConcWorkers : Launch(w)
    \/ \E w \in ConcWorkers, err \in LaunchErrors : LaunchFails(w, err)
    \/ \E w \in ConcWorkers, event \in ConcOutcomes : ChildEnds(w, event)
    \/ \E w \in ConcWorkers : Respond(w)
    \/ \E e \in Exes : EnvChange(e)

SpecSeq == InitSeq /\ [][NextSeq]_vars

----------------------------------------------------------------------------
(* ws.py _normalize_ai_response *)

MaxLen == 4    \* longest text handed to _normalize_ai_response

\* Python values: t is the type, s the characters of a str, d the items of a dict
PyStr(cs) == [t |-> "str", s |-> cs, d |-> <<>>]
PyDict(f) == [t |-> "dict", s |-> <<>>, d |-> f]
PyList    == [t |-> "list", s |-> <<>>, d |-> <<>>]
PyInt     == [t |-> "int", s |-> <<>>, d |-> <<>>]
PyNone    == [t |-> "None", s |-> <<>>, d |-> <<>>]

EmptyStr == PyStr(<<>>)

\* The characters of a text.  S stands for the member "summary": "s", N for
\* the member "summary": 5, and a for any character JSON has no use for.
Chars == {"{", "}", "[", "]", "S", "N", "a"}

Texts == UNION {[1..n -> Chars] : n \in 0..MaxLen}

SchemaKeys == {"summary", "root_cause", "fix", "patch"}

\* the value of a JSON member
MemberOf(c) ==
    IF c = "S" THEN [k \in {"summary"} |-> PyStr(<<"s">>)]
    ELSE [k \in {"summary"} |-> PyInt]

Parsed(v) == [ok |-> TRUE, val |-> v]
ParseError == [ok |-> FALSE, val |-> PyNone]

\* json.loads(text): the whole text has to be one JSON value; here an object
\* with at most one member, or a list with at most one element
RECURSIVE json_loads(_)
json_loads(cs) ==
    LET n == Len(cs) IN
    IF n < 2 THEN ParseError
    ELSE IF cs[1] = "{" /\ cs[n] = "}"
         THEN IF n = 2 THEN Parsed(PyDict(<<>>))
              ELSE IF n = 3 /\ cs[2] \in {"S", "N"} THEN Parsed(PyDict(MemberOf(cs[2])))
              ELSE ParseError
    ELSE IF cs[1] = "[" /\ cs[n] = "]"
         THEN IF n = 2 THEN Parsed(PyList)
              ELSE IF json_loads(SubSeq(cs, 2, n - 1)).ok THEN Parsed(PyList)
              ELSE ParseError
    ELSE ParseError

\* re.search(r"\{[\s\S]*\}", text).group(0): from the first "{" to the last
\* "}" after it; None when there is no such pair
re_search(cs) ==
    LET opens == {i \in 1..Len(cs) : cs[i] = "{"}
        closes == {j \in 1..Len(cs) : cs[j] = "}"}
    IN IF opens = {} THEN None
       ELSE LET i == CHOOSE x \in opens : \A y \in opens : x <= y
                after == {j \in closes : j > i}
            IN IF after = {} THEN None
               ELSE LET j == CHOOSE x \in after : \A y \in after : x >= y
                    IN [kind |-> "match", group |-> SubSeq(cs, i, j)]

\* str(value) of the values that are neither dict nor str
py_str(v) ==
    CASE v.t = "int"  -> PyStr(<<"5">>)
      [] v.t = "list" -> PyStr(<<"[", "]">>)
      [] v.t = "None" -> PyStr(<<"N", "o", "n", "e">>)

\* lines 66 and 69: the text goes to root_cause
fallback(text) ==
    [k \in SchemaKeys |-> IF k = "root_cause" THEN text ELSE EmptyStr]

\* d.get(k, ""): the value of the key, "" when the key is missing
dict_get(d, k) == IF k \in DOMAIN d THEN d[k] ELSE EmptyStr

\* the four keys with whatever value the response has for them
normalize_dict_AsIs(d) ==
    [k \in SchemaKeys \cup DOMAIN d |-> dict_get(d, k)]

\* lines 41-47: the four keys, "" in place of a value that is not a str, and
\* every other key of the response as it is
normalize_dict(d) ==
    [k \in SchemaKeys \cup DOMAIN d |->
        IF k \in SchemaKeys
        THEN (IF dict_get(d, k).t = "str" THEN dict_get(d, k) ELSE EmptyStr)
        ELSE d[k]]

\* lines 39-69; the recursive calls (lines 54 and 62) are made with a dict and
\* return from the first branch
_normalize_ai_response(ai) ==
    IF ai.t = "dict" THEN normalize_dict(ai.d)
    ELSE IF ai.t = "str"
         THEN LET parsed == json_loads(ai.s) IN
              IF parsed.ok
              THEN (IF parsed.val.t = "dict" THEN normalize_dict(parsed.val.d) ELSE fallback(ai))
              ELSE LET m == re_search(ai.s) IN
                   IF m # None /\ json_loads(m.group).ok /\ json_loads(m.group).val.t = "dict"
                   THEN normalize_dict(json_loads(m.group).val.d)
                   ELSE fallback(ai)
    ELSE fallback(py_str(ai))

\* values a dict returned by the AI client has for a key
DictValues == {PyStr(<<"v">>), PyInt, PyList, PyNone}
DictKeys == SchemaKeys \cup {"extra"}
Dicts == UNION {[ks -> DictValues] : ks \in SUBSET DictKeys}

\* the arguments: dicts, texts and other values
NormInputs == {PyDict(f) : f \in Dicts} \cup {PyStr(cs) : cs \in Texts} \cup {PyInt, PyList, PyNone}

InitNorm ==
    /\ path = Exes /\ StartState
    /\ wpc = "normalize"
    /\ ai_resp \in NormInputs
    /\ sock = "open" /\ inbox = <<>> /\ sent = <<>> /\ data_raw = None /\ payload = None
    /\ stop_event = FALSE /\ ping_task = "none" /\ whist = <<>> /\ left = None

\* line 167: payload = _normalize_ai_response(ai_resp)
Normalize ==
    /\ wpc = "normalize"
    /\ payload' = _normalize_ai_response(ai_resp)
    /\ wpc' = "normalized"
    /\ UNCHANGED <<runvars, sock, inbox, sent, data_raw, ai_resp, stop_event, ping_task, whist, left>>

NextNorm == Normalize

SpecNorm == InitNorm /\ [][NextNorm]_vars

----------------------------------------------------------------------------
(* ws.py websocket_endpoint and _send_ping_periodically: one connection *)

MaxMsgs == 2     \* frames the client sends on the connection
MaxPings == 1    \* keepalive messages the server sends

SERVER_PING_INTERVAL == 20

\* The texts a client sends.
NotJsonText == "diagnose please"
ListText == "[1]"
PingText == "{\"type\": \"ping\"}"
RunText == "{\"type\": \"run\"}"
EmptyObjectText == "{}"
DiagnoseText == "{\"type\": \"diagnose\", \"code\": \"x = 1\"}"
DiagnoseBareText == "{\"type\": \"diagnose\"}"
DiagnoseIntText == "{\"type\": \"diagnose\", \"code\": 5}"

ClientTexts == {NotJsonText, ListText, PingText, RunText, EmptyObjectText,
                DiagnoseText, DiagnoseBareText, DiagnoseIntText}

\* a frame on the connection: a text frame, or a binary frame
TextFrame(text) == [frame |-> "text", text |-> text]
BytesFrame == [frame |-> "bytes", text |-> ""]
ClientFrames == {TextFrame(text) : text \in ClientTexts} \cup {BytesFrame}

\* json.loads(data_raw) of the texts above: a dict with its "type" and "code"
\* items (None for a missing key), another JSON value, or an error
RequestDict(type, code) == [ok |-> TRUE, t |-> "dict", type |-> type, code |-> code]
loads_request(text) ==
    CASE text = NotJsonText      -> [ok |-> FALSE, t |-> "", type |-> PyNone, code |-> PyNone]
      [] text = ListText         -> [ok |-> TRUE, t |-> "list", type |-> PyNone, code |-> PyNone]
      [] text = PingText         -> RequestDict(PyStr(<<"ping">>), PyNone)
      [] text = RunText          -> RequestDict(PyStr(<<"run">>), PyNone)
      [] text = EmptyObjectText  -> RequestDict(PyNone, PyNone)
      [] text = DiagnoseText     -> RequestDict(PyStr(<<"diagnose">>), PyStr(<<"x = 1">>))
      [] text = DiagnoseBareText -> RequestDict(PyStr(<<"diagnose">>), PyNone)
      [] text = DiagnoseIntText  -> RequestDict(PyStr(<<"diagnose">>), PyInt)

\* line 133: code = data.get("code", "")
code_of(data, text) == IF text = DiagnoseBareText THEN EmptyStr ELSE data.code

\* len(value) is defined for str (and other sized values), not for int or None
HasLen(v) == v.t \in {"str", "list", "dict"}

\* a message of the server; re is the number of the client message it answers,
\* 0 for a keepalive
ServerMsg(type, message, diagnosis, re) ==
    [type |-> type, message |-> message, diagnosis |-> diagnosis, re |-> re]

Break(why) == [kind |-> "break", why |-> why]
Raise(why) == [kind |-> "raise", why |-> why]

\* what ask_groq_json returns: the parsed dict, or the raw text
AiResults == {PyDict([k \in {"summary", "fix"} |-> PyStr(<<"v">>)]), PyStr(<<"a", "{", "S", "}">>)}

\* the entry of the message being handled
Current == Len(whist)

\* await websocket.send_text(...) inside try / except Exception: pass
TrySend(type, message) ==
    IF sock = "open"
    THEN /\ sent' = Append(sent, ServerMsg(type, message, None, Current))
         /\ whist' = [whist EXCEPT ![Current].replies = Append(@, type), ![Current].state = "handled"]
    ELSE /\ sent' = sent
         /\ whist' = [whist EXCEPT ![Current].writable = FALSE, ![Current].state = "handled"]

\* lines 84-87: the connection is accepted and the keepalive task is created
Accept ==
    /\ wpc = "start"
    /\ wpc' = "receive"
    /\ ping_task' = "created"
    /\ UNCHANGED <<runvars, sock, inbox, sent, data_raw, ai_resp, payload, stop_event, whist, left>>

\* the client sends a frame
ClientSends(f) ==
    /\ wpc \notin {"start", "closed"}
    /\ sock = "open"
    /\ Len(whist) + Len(inbox) < MaxMsgs
    /\ inbox' = Append(inbox, f)
    /\ UNCHANGED <<runvars, wpc, sock, sent, data_raw, ai_resp, payload, stop_event, ping_task, whist, left>>

\* the client closes the connection, or the connection is lost
ClientLeaves ==
    /\ wpc \notin {"start", "closed"}
    /\ sock = "open"
    /\ sock' = "gone"
    /\ UNCHANGED <<runvars, wpc, inbox, sent, data_raw, ai_resp, payload, stop_event, ping_task, whist, left>>

Pings == {i \in 1..Len(sent) : sent[i].type = "ping"}

\* _send_ping_periodically, line 19: the task runs for the first time
PingStart ==
    /\ ping_task = "created"
    /\ ping_task' = IF stop_event THEN "ended" ELSE "sending"
    /\ UNCHANGED <<runvars, wpc, sock, inbox, sent, data_raw, ai_resp, payload, stop_event, whist, left>>

\* lines 20-24: send_text returns, or raises and the loop is left
PingSend ==
    /\ ping_task = "sending"
    /\ IF sock = "open"
       THEN /\ sent' = Append(sent, ServerMsg("ping", "", None, 0))
            /\ ping_task' = "waiting"
       ELSE /\ ping_task' = "ended"
            /\ sent' = sent
    /\ UNCHANGED <<runvars, wpc, sock, inbox, data_raw, ai_resp, payload, stop_event, whist, left>>

\* lines 25-28 and 19: the wait ends because the event is set, and the loop is
\* left, or it ends after SERVER_PING_INTERVAL seconds and the next round begins
PingWake ==
    /\ ping_task = "waiting"
    /\ IF stop_event
       THEN ping_task' = "ended"
       ELSE /\ Cardinality(Pings) < MaxPings
            /\ ping_task' = "sending"
    /\ UNCHANGED <<runvars, wpc, sock, inbox, sent, data_raw, ai_resp, payload, stop_event, whist, left>>

\* line 92: receive_text returns the text of the next frame
ReceiveText ==
    /\ wpc = "receive"
    /\ inbox # <<>>
    /\ Head(inbox).frame = "text"
    /\ data_raw' = Head(inbox).text
    /\ inbox' = Tail(inbox)
    /\ whist' = Append(whist, [raw |-> Head(inbox).text, ai |-> 0, replies |-> <<>>,
                               writable |-> TRUE, state |-> "handling"])
    /\ wpc' = "loaded"
    /\ UNCHANGED <<runvars, sock, sent, ai_resp, payload, stop_event, ping_task, left>>

\* lines 93-95: receive_text raises WebSocketDisconnect
ReceiveDisconnect ==
    /\ wpc = "receive"
    /\ inbox = <<>>
    /\ sock = "gone"
    /\ left' = Break("disconnect")
    /\ wpc' = "finally"
    /\ UNCHANGED <<runvars, sock, inbox, sent, data_raw, ai_resp, payload, stop_event, ping_task, whist>>

\* lines 96-102: receive_text raises another exception (KeyError for a frame
\* that carries bytes); the error message is tried and the loop is left
ReceiveError ==
    /\ wpc = "receive"
    /\ inbox # <<>>
    /\ Head(inbox).frame = "bytes"
    /\ inbox' = Tail(inbox)
    /\ sent' = IF sock = "open"
               THEN Append(sent, ServerMsg("diagnosis_error", "Receive error: 'text'", None, 0))
               ELSE sent
    /\ left' = Break("receive_error")
    /\ wpc' = "finally"
    /\ UNCHANGED <<runvars, sock, data_raw, ai_resp, payload, stop_event, ping_task, whist>>

\* lines 105-113: the text is not JSON
InvalidJson ==
    /\ wpc = "loaded"
    /\ ~loads_request(data_raw).ok
    /\ TrySend("diagnosis_error", "Invalid JSON request")
    /\ wpc' = "receive"
    /\ UNCHANGED <<runvars, sock, inbox, data_raw, ai_resp, payload, stop_event, ping_task, left>>

\* line 116 with data a list, a number, a string or null: data.get raises
\* AttributeError, which no except clause of the loop catches
GetRaises ==
    /\ wpc = "loaded"
    /\ loads_request(data_raw).ok
    /\ loads_request(data_raw).t # "dict"
    /\ whist' = [whist EXCEPT ![Current].state = "raised"]
    /\ left' = Raise("AttributeError")
    /\ wpc' = "finally"
    /\ UNCHANGED <<runvars, sock, inbox, sent, data_raw, ai_resp, payload, stop_event, ping_task>>

\* lines 116-121: a ping of the client is answered with a pong
Pong ==
    /\ wpc = "loaded"
    /\ LET data == loads_request(data_raw)
       IN data.ok /\ data.t = "dict" /\ data.type = PyStr(<<"ping">>)
    /\ TrySend("pong", "")
    /\ wpc' = "receive"
    /\ UNCHANGED <<runvars, sock, inbox, data_raw, ai_resp, payload, stop_event, ping_task, left>>

\* lines 123-128: any other type than "diagnose"
Unsupported ==
    /\ wpc = "loaded"
    /\ LET data == loads_request(data_raw)
       IN /\ data.ok /\ data.t = "dict"
          /\ data.type # PyStr(<<"ping">>)
          /\ data.type # PyStr(<<"diagnose">>)
    /\ TrySend("diagnosis_error", "Unsupported message type; expected 'diagnose'.")
    /\ wpc' = "receive"
    /\ UNCHANGED <<runvars, sock, inbox, data_raw, ai_resp, payload, stop_event, ping_task, left>>

\* lines 131-154: the prompt is built and ask_groq_json is handed to the
\* executor; len(code) raises TypeError for a code that has no length
Diagnose ==
    /\ wpc = "loaded"
    /\ LET data == loads_request(data_raw)
           code == code_of(data, data_raw)
       IN /\ data.ok /\ data.t = "dict" /\ data.type = PyStr(<<"diagnose">>)
          /\ IF code = PyNone \/ HasLen(code)
             THEN /\ whist' = [whist EXCEPT ![Current].ai = @ + 1]
                  /\ wpc' = "ai"
                  /\ left' = left
             ELSE /\ whist' = [whist EXCEPT ![Current].state = "raised"]
                  /\ left' = Raise("TypeError")
                  /\ wpc' = "finally"
    /\ UNCHANGED <<runvars, sock, inbox, sent, data_raw, ai_resp, payload, stop_event, ping_task>>

\* line 154: ask_groq_json returns
AiReturns(v) ==
    /\ wpc = "ai"
    /\ ai_resp' = v
    /\ wpc' = "reply"
    /\ UNCHANGED <<runvars, sock, inbox, sent, data_raw, payload, stop_event, ping_task, whist, left>>

\* lines 155-163: ask_groq_json raises; the error is reported and the loop goes on
AiRaises ==
    /\ wpc = "ai"
    /\ TrySend("diagnosis_error", "AI error: Groq API error")
    /\ wpc' = "receive"
    /\ UNCHANGED <<runvars, sock, inbox, data_raw, ai_resp, payload, stop_event, ping_task, left>>

\* what send_text raises on a connection that is gone
SendErrors == {"WebSocketDisconnect", "RuntimeError"}

\* lines 166-179: the result is normalized and sent; err is what send_text
\* raises if the connection is gone
SendDiagnosis(err) ==
    /\ wpc = "reply"
    /\ payload' = _normalize_ai_response(ai_resp)
    /\ IF sock = "open"
       THEN /\ sent' = Append(sent, ServerMsg("diagnosis", "", _normalize_ai_response(ai_resp), Current))
            /\ whist' = [whist EXCEPT ![Current].replies = Append(@, "diagnosis"), ![Current].state = "handled"]
            /\ wpc' = "receive"
            /\ left' = left
       ELSE /\ sent' = sent
            /\ whist' = [whist EXCEPT ![Current].writable = FALSE, ![Current].state = "handled"]
            /\ IF err = "WebSocketDisconnect"
               THEN wpc' = "finally" /\ left' = Break("send_disconnect")
               ELSE \* the diagnosis_error of lines 174-177 fails as well
                    wpc' = "receive" /\ left' = left
    /\ UNCHANGED <<runvars, sock, inbox, data_raw, ai_resp, stop_event, ping_task>>

\* a finally block that does not set the event
StopPing_NoSet ==
    /\ wpc = "finally"
    /\ wpc' = "join"
    /\ UNCHANGED <<runvars, sock, inbox, sent, data_raw, ai_resp, payload, stop_event, ping_task, whist, left>>

\* line 183: stop_event.set()
StopPing ==
    /\ wpc = "finally"
    /\ stop_event' = TRUE
    /\ wpc' = "join"
    /\ UNCHANGED <<runvars, sock, inbox, sent, data_raw, ai_resp, payload, ping_task, whist, left>>

\* lines 184-185: wait_for(ping_task, timeout=1.0) returns, the task has ended
JoinPing ==
    /\ wpc = "join"
    /\ ping_task = "ended"
    /\ wpc' = "close"
    /\ UNCHANGED <<runvars, sock, inbox, sent, data_raw, ai_resp, payload, stop_event, ping_task, whist, left>>

\* lines 184-187: the second passes; wait_for cancels the task, whose
\* "finally: return" ends it, and raises TimeoutError, which is passed over
JoinTimeout ==
    /\ wpc = "join"
    /\ ping_task # "ended"
    /\ ping_task' = "ended"
    /\ wpc' = "close"
    /\ UNCHANGED <<runvars, sock, inbox, sent, data_raw, ai_resp, payload, stop_event, whist, left>>

\* lines 188-192: websocket.close()
Close ==
    /\ wpc = "close"
    /\ sock' = "closed"
    /\ wpc' = "closed"
    /\ UNCHANGED <<runvars, inbox, sent, data_raw, ai_resp, payload, stop_event, ping_task, whist, left>>

InitWs == path = Exes /\ StartState /\ WsStart

NextWs ==
    \/ Accept
    \/ \E f \in ClientFrames : ClientSends(f)
    \/ ClientLeaves
    \/ PingStart
    \/ PingSend
    \/ PingWake
    \/ ReceiveText
    \/ ReceiveDisconnect
    \/ ReceiveError
    \/ InvalidJson
    \/ GetRaises
    \/ Pong
    \/ Unsupported
    \/ Diagnose
    \/ \E v \in AiResults : AiReturns(v)
    \/ AiRaises
    \/ \E err \in SendErrors : SendDiagnosis(err)
    \/ StopPing
    \/ JoinPing
    \/ JoinTimeout
    \/ Close

SpecWs == InitWs /\ [][NextWs]_vars

\* one frame for each way through the handler: a text that is not JSON, a list,
\* a ping, an unsupported type, a diagnose request with a str and with an int
\* as its code, and a binary frame
ExitFrames == {TextFrame(text) : text \in {NotJsonText, ListText, PingText, RunText,
                                          DiagnoseText, DiagnoseIntText}} \cup {BytesFrame}

NextWsExit ==
    \/ Accept
    \/ \E f \in ExitFrames : ClientSends(f)
    \/ ClientLeaves
    \/ PingStart
    \/ PingSend
    \/ PingWake
    \/ ReceiveText
    \/ ReceiveDisconnect
    \/ ReceiveError
    \/ InvalidJson
    \/ GetRaises
    \/ Pong
    \/ Unsupported
    \/ Diagnose
    \/ \E v \in AiResults : AiReturns(v)
    \/ AiRaises
    \/ \E err \in SendErrors : SendDiagnosis(err)
    \/ StopPing
    \/ JoinPing
    \/ JoinTimeout
    \/ Close

\* The event loop runs every task that is ready and every timer that is due:
\* the finally block of the handler and the keepalive task take their steps.
SpecWsFair ==
    /\ InitWs
    /\ [][NextWsExit]_vars
    /\ WF_vars(StopPing \/ JoinPing \/ JoinTimeout \/ Close)
    /\ WF_vars(PingStart \/ PingSend \/ PingWake)

----------------------------------------------------------------------------
(* Properties *)

CompileRunLangs == {"java"} \cup CLangs

Finished(w) == pc[w] \in {"returned", "done"}

\* the response of run_code carries the result of run_linter_for_language
Carries(w, r) ==
    /\ local[w].result = r
    /\ pc[w] = "done" =>
        /\ resp[w].kind = "ok"
        /\ resp[w].stdout = r.stdout /\ resp[w].stderr = r.stderr
        /\ resp[w].rc = r.rc /\ resp[w].executed_cmd = r.executed

\* C1: for java, c and cpp/c++, once the compile step has returned a nonzero
\* code (124 and 125 included) no further process is attempted and the request
\* returns exactly the four values the compile step returned.
C1_CompileFailureSkipsRun ==
    \A w \in AllWorkers :
        LET h == hist[w] IN
        (/\ local[w].lang \in CompileRunLangs
         /\ Len(h.calls) >= 1
         /\ h.calls[1].phase = "compile"
         /\ h.calls[1].result.rc # 0)
        => /\ h.attempted = <<"compile">>
           /\ Len(h.calls) = 1
           /\ Finished(w)
           /\ Carries(w, h.calls[1].result)

C1_Witness ==
    \E w \in AllWorkers :
        /\ pc[w] = "done"
        /\ local[w].lang = "cpp"
        /\ hist[w].calls # <<>>
        /\ hist[w].calls[1].phase = "compile"
        /\ hist[w].calls[1].event.kind = "timeout"
        /\ resp[w].rc = TimeoutCode

WellFormed(r) ==
    /\ r.kind = "return"
    /\ r.stdout \in STRING
    /\ r.stderr \in STRING
    /\ r.rc \in Int
    /\ r.executed \in STRING

\* C2: every run_command call returns a 4-tuple whatever happened to the child,
\* and every request whose source file was written ends with a well-formed result.
C2_NeverRaises ==
    \A w \in AllWorkers :
        /\ \A i \in 1..Len(hist[w].calls) : WellFormed(hist[w].calls[i].result)
        /\ pc[w] = "returned" => WellFormed(local[w].result)
        /\ (pc[w] = "done" /\ file_path[w] # None) =>
               /\ resp[w].kind = "ok"
               /\ WellFormed(local[w].result)
               /\ Carries(w, local[w].result)

C2_Witness ==
    \E w \in AllWorkers :
        /\ pc[w] = "done"
        /\ Len(hist[w].calls) = 2
        /\ hist[w].calls[2].event.kind = "oserror"
        /\ resp[w].kind = "ok"

TimedOut(w) == \E i \in 1..Len(hist[w].calls) : hist[w].calls[i].event.kind = "timeout"

\* C3: a run_command call whose child exceeded the timeout returns empty stdout,
\* the timeout message and 124; a request in which a step timed out, in either
\* phase, ends with return code 124 and empty stdout.
C3_TimeoutResult ==
    \A w \in AllWorkers :
        /\ \A i \in 1..Len(hist[w].calls) :
               hist[w].calls[i].event.kind = "timeout" =>
                   /\ hist[w].calls[i].result.stdout = ""
                   /\ hist[w].calls[i].result.stderr = TimeoutMessage
                   /\ hist[w].calls[i].result.rc = TimeoutCode
        /\ TimedOut(w) =>
               /\ Finished(w)
               /\ local[w].result.rc = TimeoutCode
               /\ local[w].result.stdout = ""
               /\ pc[w] = "done" => (resp[w].rc = TimeoutCode /\ resp[w].stdout = "")

C3_Witness ==
    \E w \in AllWorkers :
        /\ pc[w] = "done"
        /\ Len(hist[w].calls) = 2
        /\ hist[w].calls[2].phase = "run"
        /\ hist[w].calls[2].event.kind = "timeout"
        /\ resp[w].rc = TimeoutCode

ReportedAbsent(w, name) == <<name, FALSE>> \in hist[w].seen

SupportedLangs == PythonLangs \cup JsLangs \cup {"java"} \cup CLangs

Result125(w) ==
    /\ Finished(w)
    /\ local[w].result.rc = RunnerErrorCode
    /\ pc[w] = "done" => (resp[w].kind = "ok" /\ resp[w].rc = RunnerErrorCode)

\* no python/python3, no node, no javac or no java, no gcc/clang, no g++/clang++
C4_InterpreterOrCompilerAbsent(w) ==
    LET lang == local[w].lang IN
    \/ lang \in PythonLangs /\ ReportedAbsent(w, "python") /\ ReportedAbsent(w, "python3")
    \/ lang \in JsLangs /\ ReportedAbsent(w, "node")
    \/ lang = "java" /\ (ReportedAbsent(w, "javac") \/ ReportedAbsent(w, "java"))
    \/ lang = "c" /\ ReportedAbsent(w, "gcc") /\ ReportedAbsent(w, "clang")
    \/ lang \in CppLangs /\ ReportedAbsent(w, "g++") /\ ReportedAbsent(w, "clang++")

\* C4 as stated: when the locator has reported no interpreter or compiler (or no
\* java runtime) for the language, the request ends with 125 and has started
\* no process.
C4_AsStated ==
    \A w \in AllWorkers :
        (Finished(w) /\ C4_InterpreterOrCompilerAbsent(w)) =>
            (Result125(w) /\ hist[w].spawned = <<>>)

\* none of the executables the branch tries first is present
C4_NothingToInvoke(w) ==
    LET lang == local[w].lang IN
    \/ /\ lang \in PythonLangs
       /\ ReportedAbsent(w, "python") /\ ReportedAbsent(w, "python3") /\ ReportedAbsent(w, "pylint")
    \/ lang \in JsLangs /\ ReportedAbsent(w, "node") /\ ReportedAbsent(w, "eslint")
    \/ lang = "java" /\ ReportedAbsent(w, "javac")
    \/ lang = "c" /\ ReportedAbsent(w, "gcc") /\ ReportedAbsent(w, "clang")
    \/ lang \in CppLangs /\ ReportedAbsent(w, "g++") /\ ReportedAbsent(w, "clang++")

\* C4 (amended): when the locator has reported absent every executable the
\* language's branch can start with (python, python3 and pylint; node and
\* eslint; javac; gcc and clang; g++ and clang++), the request ends with
\* return code 125 and no process was attempted at any point of it.
C4_NoToolchainNoProcess ==
    \A w \in AllWorkers :
        C4_NothingToInvoke(w) =>
            /\ Result125(w)
            /\ hist[w].attempted = <<>>
            /\ hist[w].calls = <<>>
            /\ alive[w] = {}

C4_Witness ==
    \E w \in AllWorkers :
        /\ pc[w] = "done"
        /\ local[w].lang = "java"
        /\ ReportedAbsent(w, "javac")
        /\ resp[w].rc = RunnerErrorCode
        /\ hist[w].attempted = <<>>

\* C5: when a request has finished, on any exit path, the temporary directory
\* created for it no longer exists and no file of the request is left inside it.
C5_WorkspaceRemoved ==
    \A w \in AllWorkers :
        pc[w] = "done" =>
            /\ hist[w].td # None
            /\ td[w] = None
            /\ tmpdirs[hist[w].td.name] # w
            /\ \A f \in files : ~(f.owner = w /\ Inside(f.dir, hist[w].td))

C5_Witness ==
    \E w \in AllWorkers :
        /\ pc[w] = "done"
        /\ req[w].filename = None
        /\ local[w].lang = "c"
        /\ Len(hist[w].calls) = 2
        /\ hist[w].calls[1].event = [kind |-> "exit", rc |-> 0]
        /\ hist[w].calls[2].event.kind = "timeout"
        /\ tmpdirs[hist[w].td.name] = 0

C6_Distinct ==
    \A v, w \in AllWorkers :
        (Active(w) /\ Active(v) /\ v # w) =>
            /\ td[w] # None /\ tmpdirs[td[w].name] = w
            /\ td[v] # td[w]

C6_NoneLeft ==
    \A w \in AllWorkers :
        ~Active(w) => (td[w] = None /\ \A n \in TmpNames : tmpdirs[n] # w)

C6_CleanupIsLocal ==
    \A w \in AllWorkers :
        (td[w] # None /\ td'[w] = None) =>
            \A v \in AllWorkers \ {w} :
                Active(v) =>
                    /\ tmpdirs'[td[v].name] = v
                    /\ \A f \in files : f.owner = v => f \in files'

C7_SourceInsideWorkspace ==
    \A w \in AllWorkers :
        (file_path[w] # None /\ td[w] # None) =>
            LET d == Walk(<<>>, file_path[w].dirs, ExistingDirs(tmpdirs)) IN
            /\ d # None
            /\ Inside(d.d, td[w])
            /\ \A f \in files : f.owner = w => Inside(f.dir, td[w])

\* C8: in a java, c or cpp/c++ request at most one child is alive at a time,
\* the compile step is attempted first, and the run step is attempted only
\* after the compile call has finished.
C8_CompileBeforeRun ==
    \A w \in AllWorkers :
        local[w].lang \in CompileRunLangs =>
            LET h == hist[w] IN
            /\ Cardinality(alive[w]) <= 1
            /\ h.attempted \in {<<>>, <<"compile">>, <<"compile", "run">>}
            /\ "compile" \in alive[w] => h.calls = <<>>
            /\ (Len(h.attempted) = 2 \/ (pc[w] = "launch" /\ call[w].phase = "run")) =>
                   /\ Len(h.calls) >= 1
                   /\ h.calls[1].phase = "compile"
                   /\ "compile" \notin alive[w]

C8_Witness ==
    \E w \in AllWorkers :
        /\ local[w].lang = "java"
        /\ alive[w] = {"run"}
        /\ Len(hist[w].calls) = 1
        /\ hist[w].calls[1].phase = "compile"

\* C9: a returned 124 means a step timed out, a returned 125 means a toolchain
\* was missing or a launch failed, and any other code is the exit status of
\* the last child.
C9_ReservedCodes ==
    \A w \in AllWorkers :
        (Finished(w) /\ local[w].result # None) =>
            LET r == local[w].result
                h == hist[w]
            IN /\ r.rc = TimeoutCode => TimedOut(w)
               /\ r.rc = RunnerErrorCode =>
                      \/ h.attempted = <<>>
                      \/ ReportedAbsent(w, "java")
                      \/ \E i \in 1..Len(h.calls) : h.calls[i].event.kind \in LaunchErrors
               /\ r.rc \notin {TimeoutCode, RunnerErrorCode} =>
                      /\ h.calls # <<>>
                      /\ h.calls[Len(h.calls)].event = [kind |-> "exit", rc |-> r.rc]

\* C10: for a language that is not supported and a file whose suffix is not
\* .py, no executable is looked up, no process is attempted, and the result is
\* always ("", the message naming the language, 125, "").
C10_NoRunner ==
    \A w \in AllWorkers :
        (/\ file_path[w] # None
         /\ pc[w] # "dispatch"
         /\ local[w].lang \notin SupportedLangs
         /\ file_path[w].ext # ".py")
        => /\ Finished(w)
           /\ hist[w].seen = {}
           /\ hist[w].attempted = <<>>
           /\ hist[w].calls = <<>>
           /\ Carries(w, Result("", NoRunnerMessage(language_arg(w)), RunnerErrorCode, ""))

C10_Witness ==
    \E w \in AllWorkers :
        /\ pc[w] = "done"
        /\ req[w].language = "ruby"
        /\ req[w].filename = None
        /\ resp[w].kind = "ok"
        /\ resp[w].rc = RunnerErrorCode
        /\ resp[w].stderr = "No runner available for language 'ruby'."

\* the same things happened inside subprocess.run in the calls both requests made
SameEvents(v, w) ==
    \A i \in 1..Len(hist[v].calls) :
        i <= Len(hist[w].calls) => hist[v].calls[i].event = hist[w].calls[i].event

\* C11: a request with an unrecognized language and a .py file ends as a
\* request with language "python" for the same file does when PATH is the same
\* and the children behave the same: the same run_command calls with the same
\* commands, the same processes and the same response, for every combination
\* of python, python3 and pylint being present.
C11_FallbackAsPython ==
    \A v, w \in AllWorkers :
        (/\ pc[v] = "done" /\ pc[w] = "done"
         /\ envChanges = 0
         /\ lower(req[v].language) \notin SupportedLangs
         /\ file_path[v].ext = ".py"
         /\ req[w].language = "python"
         /\ file_path[w] = file_path[v]
         /\ SameEvents(v, w))
        => /\ hist[v].spawned = hist[w].spawned
           /\ hist[v].calls = hist[w].calls
           /\ resp[v] = resp[w]

\* the event loop can enter run_code for a request that is waiting to be served
CanBegin(w) ==
    \E language \in SeqLanguages, filename \in SeqFileNames, n \in TmpNames :
        ENABLED BeginOnLoop(w, language, filename, n)

\* C12: while a run request waits for its child process, the event loop is
\* free: a request that has arrived and is not yet served can be taken up
\* before that child has ended.
C12_LoopNotStalled ==
    \A v \in ConcWorkers :
        pc[v] = "wait" =>
            \A w \in ConcWorkers \ {v} : pc[w] = "idle" => CanBegin(w)

\* a lookup made in this step reports what PATH holds in this step
C16_LookupIsFresh ==
    \A w \in AllWorkers :
        \A s \in hist'[w].seen \ hist[w].seen : s[2] = (s[1] \in path)

\* what a request invokes, or its toolchain-missing result, follows from the
\* lookups of that request
C16_OwnLookupsDecide ==
    \A w \in AllWorkers :
        /\ (pc[w] \in {"launch", "wait"} /\ call[w].exe.kind = "tool") =>
               <<call[w].exe.name, TRUE>> \in hist[w].seen
        /\ (Finished(w) /\ hist[w].attempted = <<>>) =>
               /\ local[w].result.rc = RunnerErrorCode
               /\ \A s \in hist[w].seen : s[2] = FALSE

\* C16: availability is never cached: every lookup reports what PATH holds at
\* the moment of the lookup, whatever earlier requests have seen, and a request
\* invokes a toolchain only after finding it itself and reports a missing
\* toolchain only after finding nothing itself.
C16_NeverCached == [][C16_LookupIsFresh]_vars /\ []C16_OwnLookupsDecide

C16_Witness ==
    \E v, w \in AllWorkers :
        /\ pc[v] = "done" /\ pc[w] = "done"
        /\ req[v].language = "python" /\ req[w].language = "python"
        /\ hist[v].seen = {<<"python", TRUE>>}
        /\ resp[v].rc = 0
        /\ hist[w].seen = {<<"python", FALSE>>, <<"python3", FALSE>>, <<"pylint", FALSE>>}
        /\ resp[w].rc = RunnerErrorCode

\* C13: in a java, c or cpp/c++ request that has ended, when run_command was
\* called for the run phase the executed command of the result is the compile
\* call's reconstructed command, " ; " and the run call's reconstructed command,
\* in that order; when it was called for the compile phase only, it is the
\* compile call's reconstructed command alone.
C13_ExecutedCommand ==
    \A w \in AllWorkers :
        (local[w].lang \in CompileRunLangs /\ Finished(w) /\ hist[w].calls # <<>>) =>
            LET c == hist[w].calls
                executed == local[w].result.executed
            IN /\ c[1].phase = "compile"
               /\ Len(c) = 1 => executed = c[1].result.executed
               /\ Len(c) > 1 =>
                      /\ Len(c) = 2 /\ c[2].phase = "run"
                      /\ executed = c[1].result.executed \o " ; " \o c[2].result.executed
               /\ pc[w] = "done" => (resp[w].kind = "ok" /\ resp[w].executed_cmd = executed)

C13_Witness ==
    \E w \in AllWorkers :
        /\ pc[w] = "done"
        /\ req[w].language = "c" /\ req[w].filename = None
        /\ Len(hist[w].calls) = 2
        /\ resp[w].executed_cmd = "gcc /tmp/tmp1/main.c -o /tmp/tmp1/a_out_exec ; /tmp/tmp1/a_out_exec"

\* C14: for java, when javac was found, the compile call returned 0 and the
\* java runtime was then not found, no run process is attempted and the
\* request ends with the compile call's stdout, the explanatory stderr, 125 and
\* the compile call's command.
C14_CompiledNoRuntime ==
    \A w \in AllWorkers :
        (/\ local[w].lang = "java"
         /\ <<"javac", TRUE>> \in hist[w].seen
         /\ hist[w].calls # <<>>
         /\ hist[w].calls[1].phase = "compile"
         /\ hist[w].calls[1].result.rc = 0
         /\ ReportedAbsent(w, "java"))
        => /\ hist[w].attempted = <<"compile">>
           /\ Len(hist[w].calls) = 1
           /\ alive[w] = {}
           /\ Finished(w)
           /\ Carries(w, Result(hist[w].calls[1].result.stdout, NoJavaMessage, RunnerErrorCode,
                                executed_string(<<Arg("javac"), SourceArg(w)>>)))

C14_Witness ==
    \E w \in AllWorkers :
        /\ pc[w] = "done"
        /\ req[w].language = "Java" /\ req[w].filename = None
        /\ hist[w].seen = {<<"javac", TRUE>>, <<"java", FALSE>>}
        /\ hist[w].spawned = <<"compile">>
        /\ resp[w].stdout = "compiler output"
        /\ resp[w].stderr = NoJavaMessage
        /\ resp[w].rc = RunnerErrorCode
        /\ resp[w].executed_cmd = "javac /tmp/tmp1/main.java"

\* the extension the claim gives for each supported identifier
CanonicalExt(lang) ==
    CASE lang \in PythonLangs -> ".py"
      [] lang \in JsLangs     -> ".js"
      [] lang = "java"        -> ".java"
      [] lang = "c"           -> ".c"
      [] lang \in CppLangs    -> ".cpp"

\* C15: when the request supplies no file name, the source file is "main" plus
\* the canonical extension of the language, for every supported identifier,
\* the synonyms py, js and node included, in whatever letter case it is sent.
C15_DefaultFileName ==
    \A w \in AllWorkers :
        (/\ file_path[w] # None
         /\ req[w].filename = None
         /\ lower(req[w].language) \in SupportedLangs)
        => /\ file_path[w].stem = "main"
           /\ file_path[w].ext = CanonicalExt(lower(req[w].language))

\* the candidates of a language in the order of preference, the lint-only
\* fallback last
Preference(lang) ==
    CASE lang \in PythonLangs -> <<"python", "python3", "pylint">>
      [] lang \in JsLangs     -> <<"node", "eslint">>
      [] lang = "c"           -> <<"gcc", "clang">>
      [] lang \in CppLangs    -> <<"g++", "clang++">>

\* C17: for python/py, javascript/js/node, c and cpp/c++ the candidates are
\* looked up in the fixed order, a candidate is looked up only after every
\* earlier one was found absent, the lookup stops at the first one found, and
\* that one is the program invoked; so pylint or eslint is invoked only when
\* no interpreter was found.
C17_PreferenceOrder ==
    \A w \in AllWorkers :
        (local[w].lang \in PythonLangs \cup JsLangs \cup CLangs) =>
            LET order == Preference(local[w].lang)
                looked == {s[1] : s \in hist[w].seen}
            IN /\ \E k \in 0..Len(order) : looked = {order[i] : i \in 1..k}
               /\ \A i \in 1..Len(order) :
                      /\ <<order[i], TRUE>> \in hist[w].seen =>
                             /\ \A j \in 1..(i - 1) : <<order[j], FALSE>> \in hist[w].seen
                             /\ \A j \in (i + 1)..Len(order) : order[j] \notin looked
                             /\ pc[w] \in {"launch", "wait"} =>
                                    (call[w].phase \in {"single", "compile"} => call[w].exe = Tool(order[i]))
                             /\ hist[w].calls # <<>> =>
                                    \E a \in {"", BinDir} :
                                        IsPrefix(a \o order[i] \o " ", hist[w].calls[1].result.executed)
               /\ (hist[w].attempted # <<>> \/ pc[w] \in {"launch", "wait"}) =>
                      \E i \in 1..Len(order) : <<order[i], TRUE>> \in hist[w].seen

C17_Witness ==
    \E w \in AllWorkers :
        /\ pc[w] = "done"
        /\ req[w].language = "c++"
        /\ hist[w].seen = {<<"g++", FALSE>>, <<"clang++", TRUE>>}
        /\ hist[w].calls # <<>>
        /\ resp[w].kind = "ok"
        /\ IsPrefix("clang++ ", resp[w].executed_cmd)

\* some part of the text is a JSON object
HoldsObject(cs) ==
    \E i \in 1..Len(cs) : \E j \in i..Len(cs) :
        LET p == json_loads(SubSeq(cs, i, j)) IN p.ok /\ p.val.t = "dict"

\* C20: _normalize_ai_response returns for every argument (a dict, a text
\* that is JSON, a text with a JSON object inside, any other text, any other
\* value); what it returns has the keys summary, root_cause, fix and patch,
\* each with a str value; and for a text no part of which is a JSON object it
\* is that text, unchanged, under root_cause and "" under the other three.
C20_Normalized ==
    /\ wpc = "normalize" => ENABLED Normalize
    /\ wpc = "normalized" =>
           /\ SchemaKeys \subseteq DOMAIN payload
           /\ \A k \in SchemaKeys : payload[k].t = "str"
           /\ (ai_resp.t = "str" /\ ~HoldsObject(ai_resp.s)) =>
                  /\ DOMAIN payload = SchemaKeys
                  /\ payload["root_cause"] = ai_resp
                  /\ \A k \in SchemaKeys \ {"root_cause"} : payload[k] = EmptyStr

\* a dict with values that are not strings and a key outside the schema
C20_Witness ==
    /\ wpc = "normalized"
    /\ ai_resp.t = "dict"
    /\ DOMAIN ai_resp.d = {"summary", "fix", "extra"}
    /\ ai_resp.d["summary"] = PyInt
    /\ ai_resp.d["fix"] = PyStr(<<"v">>)
    /\ payload["summary"] = EmptyStr
    /\ payload["fix"] = PyStr(<<"v">>)
    /\ "extra" \in DOMAIN payload

\* the handling of message number i has ended
Handled(i) == i < Len(whist) \/ wpc \notin {"loaded", "ai", "reply"}

\* the reply the handler owes to a text
ReplyTo(text) ==
    LET data == loads_request(text) IN
    IF ~data.ok \/ data.t # "dict" THEN {"diagnosis_error"}
    ELSE IF data.type = PyStr(<<"ping">>) THEN {"pong"}
    ELSE IF data.type = PyStr(<<"diagnose">>) THEN {"diagnosis", "diagnosis_error"}
    ELSE {"diagnosis_error"}

\* C18: whatever text the client sends, the handler ends its handling with the
\* reply that belongs to it (when the connection can still be written to) and
\* is back at receive_text; the receive loop is left only by the break after a
\* disconnect or after a receive error, never by an exception.
C18_StaysOpen ==
    /\ left # None => left \in {Break("disconnect"), Break("receive_error"), Break("send_disconnect")}
    /\ \A i \in 1..Len(whist) :
           Handled(i) =>
               /\ whist[i].state = "handled"
               /\ whist[i].writable =>
                      /\ Len(whist[i].replies) = 1
                      /\ whist[i].replies[1] \in ReplyTo(whist[i].raw)

IsDiagnose(text) ==
    LET data == loads_request(text)
    IN data.ok /\ data.t = "dict" /\ data.type = PyStr(<<"diagnose">>)

\* the messages that answer client messages, keepalives left out
Replies == {k \in 1..Len(sent) : sent[k].re > 0}

\* C19: a JSON object with type "diagnose" leads to exactly one AI call and to
\* at most one reply, a diagnosis or a diagnosis_error; the reply is sent
\* whenever the connection can be written to, and before the next message is
\* read, so that the replies are in the order of the requests.
C19_OneCallOneReply ==
    /\ \A i \in 1..Len(whist) :
           IsDiagnose(whist[i].raw) =>
               /\ whist[i].ai <= 1
               /\ whist[i].replies \in {<<>>, <<"diagnosis">>, <<"diagnosis_error">>}
               /\ Handled(i) =>
                      /\ whist[i].ai = 1
                      /\ whist[i].writable => Len(whist[i].replies) = 1
    /\ \A a, b \in Replies : a < b => sent[a].re < sent[b].re

\* the program of call number i was not there when subprocess.run tried to start it
Vanished(w, i) == hist[w].calls[i].event.kind = "notfound"

\* C21: when a program that the lookup had found is gone at the moment
\* subprocess.run tries to start it (the interpreter, the compiler, or the run
\* step after a successful compile), run_command returns and the request ends
\* with a well-formed result that has return code 125 and empty stdout; no
\* exception leaves run_linter_for_language.
C21_VanishedToolchain ==
    \A w \in AllWorkers :
        \A i \in 1..Len(hist[w].calls) :
            Vanished(w, i) =>
                /\ i = Len(hist[w].calls)
                /\ WellFormed(hist[w].calls[i].result)
                /\ Finished(w)
                /\ WellFormed(local[w].result)
                /\ local[w].result.rc = RunnerErrorCode
                /\ local[w].result.stdout = ""
                /\ pc[w] = "done" =>
                       /\ resp[w].kind = "ok"
                       /\ resp[w].rc = RunnerErrorCode
                       /\ resp[w].stdout = ""

C21_Witness ==
    \E w \in AllWorkers :
        /\ pc[w] = "done"
        /\ local[w].lang = "java"
        /\ hist[w].seen = {<<"javac", TRUE>>, <<"java", TRUE>>}
        /\ Len(hist[w].calls) = 2
        /\ hist[w].calls[1].event = [kind |-> "exit", rc |-> 0]
        /\ Vanished(w, 2)
        /\ "java" \notin path
        /\ resp[w].rc = RunnerErrorCode

\* the handler has returned or raised: everything is released
C22_Released == wpc = "closed" => (stop_event /\ ping_task = "ended" /\ sock = "closed")

\* the event is set before the handler waits for the keepalive task
C22_EventSet == wpc \in {"join", "close", "closed"} => stop_event

\* nothing is written once the socket is closed, the keepalive task ends with
\* its first failed send, and a task that has ended stays ended
C22_KeepaliveStops ==
    /\ sock = "closed" => sent' = sent
    /\ (ping_task = "sending" /\ sock # "open" /\ ping_task' # ping_task) => ping_task' = "ended"
    /\ ping_task = "ended" => ping_task' = "ended"

\* C22: however the receive loop is left (a disconnect, a receive error, an
\* exception raised while a message is handled), the stop event is set, the
\* keepalive task ends and the socket is closed, in the end and in that order;
\* no ping is sent after the socket is closed; and the keepalive task ends by
\* itself with its first send that fails.
C22_ExitReleases ==
    /\ [](C22_Released /\ C22_EventSet)
    /\ [][C22_KeepaliveStops]_vars
    /\ (wpc = "finally") ~> (wpc = "closed")

C22_Witness ==
    /\ wpc = "closed"
    /\ left = Raise("AttributeError")
    /\ Pings # {}
    /\ stop_event
    /\ ping_task = "ended"
    /\ sock = "closed"

====
